---- MODULE Spec2Model ----
(***************************************************************************)
(* Device status service (app/main.py, app/auth.py, app/models.py).        *)
(*                                                                         *)
(* The state is the devicestatus table, the configured API_KEY and the     *)
(* last request with its response.  One action per request handler.        *)
(***************************************************************************)
EXTENDS Integers, Sequences, FiniteSets, TLC

VARIABLES
    store,      \* rows of table devicestatus, in rowid (insertion) order
    api_key,    \* os.getenv("API_KEY"); NoKey when unset or empty
    last,       \* the last request handled and its response
    assigned,   \* the ids the table has given out, in the order of the inserts
    requests    \* the create requests in flight, each with its own session

vars == <<store, api_key, last, assigned, requests>>

----------------------------------------------------------------------------
(* Bounds of the model *)

MaxRecords == 2         \* rows the table may hold
MaxTime == 2            \* timestamps are 1..MaxTime
MaxClients == 2         \* create requests in flight together

(* Program constants *)

BatteryMin == 0         \* Field(ge=0)
BatteryMax == 100       \* Field(le=100)

----------------------------------------------------------------------------
(* Input domains *)

NoKey == ""             \* a falsy API_KEY / x-api-key (None or empty string)
Secret == "test-api-key"
Keys == {NoKey, Secret}
Headers == {NoKey, Secret, "invalid-key"}

Devices == {"d1", "d2"}
\* Wall-clock readings of timestamps.  Spec submits timestamps by their
\* reading; SpecCreate submits them with their timezone.
Timestamps == 1..MaxTime

\* The readings a report may carry: both ends of the battery range and one
\* value beyond each end.
Readings ==
    { [battery_level |-> -1,  rssi |-> -60, online |-> TRUE],
      [battery_level |-> 0,   rssi |-> -60, online |-> FALSE],
      [battery_level |-> 100, rssi |-> -50, online |-> TRUE],
      [battery_level |-> 101, rssi |-> -50, online |-> FALSE] }

\* Bodies of POST /status/ as parsed into DeviceStatusInput.
StatusInputs ==
    { [device_id |-> d, timestamp |-> t, battery_level |-> r.battery_level,
       rssi |-> r.rssi, online |-> r.online] :
        d \in Devices, t \in Timestamps, r \in Readings }

\* Bodies of PATCH /status/{device_id} as update.model_dump(exclude_unset=
\* True) sees them: a record of the submitted fields only.
StatusUpdates ==
    { [battery_level |-> 100],
      [battery_level |-> 101],
      [timestamp |-> MaxTime, rssi |-> -50, online |-> FALSE] }

----------------------------------------------------------------------------
(* app/auth.py *)

verify_api_key(key, x_api_key) ==
    IF key = NoKey
      THEN [ok |-> TRUE, status |-> 200, detail |-> "no_auth_required"]
    ELSE IF x_api_key = NoKey
      THEN [ok |-> FALSE, status |-> 401, detail |-> "missing API key header"]
    ELSE IF key # x_api_key
      THEN [ok |-> FALSE, status |-> 401, detail |-> "invalid API key"]
    ELSE [ok |-> TRUE, status |-> 200, detail |-> x_api_key]

----------------------------------------------------------------------------
(* app/models.py *)

\* Mutant: the le=100 constraint is missing.
BatteryLevelValid_NoUpper(b) == b >= BatteryMin

\* battery_level: int = Field(ge=0, le=100)
BatteryLevelValid(b) == b >= BatteryMin /\ b <= BatteryMax

\* DeviceStatusInput(...): pydantic validation of a create body.
DeviceStatusInput(status) == BatteryLevelValid(status.battery_level)

\* DeviceStatusUpdate(...): only the submitted fields are validated.
DeviceStatusUpdate(update) ==
    "battery_level" \in DOMAIN update => BatteryLevelValid(update.battery_level)

\* Column timestamp: datetime is a DateTime without timezone.  Binding a
\* submitted datetime [wall, tz] keeps its wall-clock reading and drops tz;
\* reading the column back gives a naive datetime.
StoredDateTime(ts) == ts.wall

ReadDateTime(t) == [wall |-> t, tz |-> "naive"]

\* DeviceStatus(**status.model_dump()) once flushed: the row with its id.
DeviceStatus(id, status) ==
    [id |-> id, device_id |-> status.device_id,
     timestamp |-> status.timestamp,
     battery_level |-> status.battery_level, rssi |-> status.rssi,
     online |-> status.online]

SummaryItem(device) ==
    [device_id |-> device.device_id, last_update |-> device.timestamp,
     battery_level |-> device.battery_level, online |-> device.online]

----------------------------------------------------------------------------
(* The table *)

RECURSIVE MaxOf(_)
MaxOf(S) ==
    IF S = {} THEN 0
    ELSE LET x == CHOOSE y \in S : TRUE
             m == MaxOf(S \ {x})
         IN IF x > m THEN x ELSE m

\* Mutant: the new rowid repeats the largest rowid in the table.
NextId_NoIncrement(rows) == MaxOf({rows[i].id : i \in DOMAIN rows})

\* id INTEGER PRIMARY KEY: the rowid given to an inserted row is one more
\* than the largest rowid in the table.
NextId(rows) == MaxOf({rows[i].id : i \in DOMAIN rows}) + 1

\* Mutant: the commit writes over the newest row in place of adding one.
InsertRow_InPlace(rows, row) ==
    IF rows = <<>> THEN <<row>> ELSE [rows EXCEPT ![Len(rows)] = row]

\* session.add(status); session.commit(): one INSERT, the row is added.
InsertRow(rows, row) == Append(rows, row)

\* Mutant: the where clause is missing.
RowsOfDevice_NoWhere(rows, device_id) == DOMAIN rows

\* .where(DeviceStatus.device_id == device_id)
RowsOfDevice(rows, device_id) ==
    {i \in DOMAIN rows : rows[i].device_id = device_id}

\* func.max(DeviceStatus.timestamp) ... group_by(DeviceStatus.device_id)
MaxTimestamp(rows, device_id) ==
    MaxOf({rows[i].timestamp : i \in RowsOfDevice(rows, device_id)})

\* Mutant: the order_by clause is missing, any row of the device comes first.
LatestCandidates_NoOrder(rows, device_id) ==
    {i \in DOMAIN rows : rows[i].device_id = device_id}

\* Mutant: only a row strictly newer than every other row of the device
\* qualifies.
LatestCandidates_Strict(rows, device_id) ==
    {i \in DOMAIN rows :
        /\ rows[i].device_id = device_id
        /\ \A j \in DOMAIN rows \ {i} :
              rows[j].device_id = device_id => rows[j].timestamp < rows[i].timestamp}

\* The rows that ORDER BY timestamp DESC may put first: every row of the
\* device whose timestamp no other row of the device exceeds.  Which of
\* several equal rows comes first is left to the database.
LatestCandidates(rows, device_id) ==
    {i \in RowsOfDevice(rows, device_id) :
        \A j \in RowsOfDevice(rows, device_id) :
            rows[j].timestamp <= rows[i].timestamp}

\* Mutant: the join compares with > in place of ==.
SummaryRows_Greater(rows) ==
    SelectSeq(rows, LAMBDA r :
        r.timestamp > MaxOf({rows[i].timestamp :
                                i \in {k \in DOMAIN rows : rows[k].device_id = r.device_id}}))

\* select(DeviceStatus).join(latest_statuses, device_id == ... & timestamp ==
\* max_timestamp): the joined rows, reported here in rowid order.
SummaryRows(rows) ==
    SelectSeq(rows, LAMBDA r :
        r.timestamp = MaxTimestamp(rows, r.device_id))

RECURSIVE MapSummary(_)
MapSummary(rows) ==
    IF rows = <<>> THEN <<>>
    ELSE <<SummaryItem(Head(rows))>> \o MapSummary(Tail(rows))

----------------------------------------------------------------------------
(* Requests and responses *)

\* last records the request (operation, path parameter, x-api-key header,
\* parsed body), the response (status, detail, body) and whether the handler
\* ran a statement on the session (exec / commit).
Response(op, device_id, x_api_key, req, status, detail, body, accessed) ==
    [op |-> op, device_id |-> device_id, x_api_key |-> x_api_key, req |-> req,
     status |-> status, detail |-> detail, body |-> body, accessed |-> accessed]

\* HTTPException raised by the verify_api_key dependency: FastAPI solves the
\* dependencies before it validates path and body parameters, so neither is
\* parsed and the handler is not called.
Rejected(op, x_api_key, auth) ==
    Response(op, "", x_api_key, <<>>, auth.status, auth.detail, <<>>, FALSE)

\* RequestValidationError: the body fails its model, the handler is not called.
Unprocessable(op, device_id, x_api_key, req) ==
    Response(op, device_id, x_api_key, <<req>>, 422, "validation error", <<>>, FALSE)

Init ==
    /\ store = <<>>
    /\ api_key \in Keys
    /\ last = Response("start", "", NoKey, <<>>, 0, "", <<>>, FALSE)
    /\ assigned = <<>>
    /\ requests = <<>>

----------------------------------------------------------------------------
(* app/main.py *)

\* POST /status/
create_status(x_api_key) ==
    LET auth == verify_api_key(api_key, x_api_key)
    IN  /\ UNCHANGED <<api_key, requests>>
        /\ IF ~auth.ok
             THEN /\ last' = Rejected("create", x_api_key, auth)
                  /\ UNCHANGED <<store, assigned>>
           ELSE \E status \in StatusInputs :
                  IF ~DeviceStatusInput(status)
                    THEN /\ last' = Unprocessable("create", status.device_id,
                                                  x_api_key, status)
                         /\ UNCHANGED <<store, assigned>>
                  ELSE LET row == DeviceStatus(NextId(store), status)
                       IN  /\ Len(store) < MaxRecords
                           /\ store' = InsertRow(store, row)
                           /\ assigned' = Append(assigned, row.id)
                           /\ last' = Response("create", status.device_id, x_api_key,
                                               <<status>>, 201, "", <<row>>, TRUE)

\* GET /status/
get_all_status(x_api_key) ==
    LET auth == verify_api_key(api_key, x_api_key)
    IN  /\ UNCHANGED <<store, api_key, assigned, requests>>
        /\ IF ~auth.ok
             THEN last' = Rejected("list", x_api_key, auth)
           ELSE last' = Response("list", "", x_api_key, <<>>, 200, "", store, TRUE)

\* GET /status/summary/
get_summary(x_api_key) ==
    LET auth == verify_api_key(api_key, x_api_key)
        results == SummaryRows(store)
    IN  /\ UNCHANGED <<store, api_key, assigned, requests>>
        /\ IF ~auth.ok
             THEN last' = Rejected("summary", x_api_key, auth)
           ELSE IF results = <<>>
             THEN last' = Response("summary", "", x_api_key, <<>>, 404,
                                   "Summary cannot be generated", <<>>, TRUE)
           ELSE last' = Response("summary", "", x_api_key, <<>>, 200, "",
                                 MapSummary(results), TRUE)

\* GET /status/{device_id}
get_latest_status(device_id, x_api_key) ==
    LET auth == verify_api_key(api_key, x_api_key)
        first == LatestCandidates(store, device_id)
    IN  /\ UNCHANGED <<store, api_key, assigned, requests>>
        /\ IF ~auth.ok
             THEN last' = Rejected("latest", x_api_key, auth)
           ELSE IF first = {}
             THEN last' = Response("latest", device_id, x_api_key, <<>>, 404,
                                   "Device not found", <<>>, TRUE)
           ELSE \E i \in first :
                  last' = Response("latest", device_id, x_api_key, <<>>, 200, "",
                                   <<store[i]>>, TRUE)

\* update.model_dump(exclude_unset=True) and the setattr loop: the submitted
\* fields replace the row's, the others stay.
Merge(device, update) ==
    [f \in DOMAIN device |-> IF f \in DOMAIN update THEN update[f] ELSE device[f]]

\* PATCH /status/{device_id}
\* select(DeviceStatus).where(...).first() is evaluated before session.exec
\* is called: a Select statement has no attribute first, so the handler
\* raises AttributeError there and the server answers 500.  The statements
\* after it are never reached.
update_status(device_id, x_api_key) ==
    LET auth == verify_api_key(api_key, x_api_key)
    IN  /\ UNCHANGED <<store, api_key, assigned, requests>>
        /\ IF ~auth.ok
             THEN last' = Rejected("update", x_api_key, auth)
           ELSE \E update \in StatusUpdates :
                  IF ~DeviceStatusUpdate(update)
                    THEN last' = Unprocessable("update", device_id, x_api_key, update)
                  ELSE last' = Response("update", device_id, x_api_key, <<update>>,
                                        500, "Internal Server Error", <<>>, FALSE)

\* delete_status: a plain function with no route decorator and no
\* verify_api_key dependency, reached by a direct call that carries no
\* header.  It raises AttributeError at the same .first() as update_status.
delete_status(device_id) ==
    /\ UNCHANGED <<store, api_key, assigned, requests>>
    /\ last' = Response("delete", device_id, NoKey, <<>>, 500, "AttributeError",
                        <<>>, FALSE)

----------------------------------------------------------------------------

Next ==
    \/ \E h \in Headers : create_status(h)
    \/ \E h \in Headers : get_all_status(h)
    \/ \E h \in Headers : get_summary(h)
    \/ \E d \in Devices, h \in Headers : get_latest_status(d, h)
    \/ \E d \in Devices, h \in Headers : update_status(d, h)
    \/ \E d \in Devices : delete_status(d)

Spec == Init /\ [][Next]_vars

----------------------------------------------------------------------------
(* Concurrent create requests.  create_status is a def handler, so requests
   run on worker threads, each with the Session its get_session dependency
   yields; they meet at the database only.  Each request is followed from
   the call of the handler (verify_api_key and validation passed) through
   the statements that reach the database: commit and refresh. *)

Clients == 1..MaxClients

\* tzinfo of a submitted timestamp: none, or UTC ("Z").
Zones == {"naive", "+00:00"}

\* Bodies the concurrent requests submit: valid, with the earliest or the
\* latest timestamp.
ConcurrentInputs ==
    { [device_id |-> d, timestamp |-> [wall |-> t, tz |-> z],
       battery_level |-> 100, rssi |-> -50, online |-> TRUE] :
        d \in Devices, t \in {1, MaxTime}, z \in Zones }

\* Tables the requests may find: empty, or one row of an earlier create.
InitialStores ==
    { <<>>,
      <<[id |-> 1, device_id |-> "d1", timestamp |-> 1, battery_level |-> 0,
         rssi |-> -60, online |-> FALSE]>> }

Idle == [pc |-> "idle", status |-> <<>>, id |-> 0, obj |-> <<>>]

InitCreate ==
    /\ store \in InitialStores
    /\ assigned = [i \in DOMAIN store |-> store[i].id]
    /\ api_key = NoKey
    /\ last = Response("start", "", NoKey, <<>>, 0, "", <<>>, FALSE)
    /\ requests = [c \in Clients |-> Idle]

\* status = DeviceStatus(**status.model_dump()); session.add(status)
CreateAdd(c) ==
    /\ requests[c].pc = "idle"
    /\ \E status \in ConcurrentInputs :
          requests' = [requests EXCEPT ![c] =
                          [pc |-> "added", status |-> <<status>>, id |-> 0, obj |-> <<>>]]
    /\ UNCHANGED <<store, api_key, last, assigned>>

\* session.commit(): the INSERT and its COMMIT are one transaction; the
\* database gives the row its id.
CreateCommit(c) ==
    /\ requests[c].pc = "added"
    /\ LET status == requests[c].status[1]
           row == DeviceStatus(NextId(store),
                               [status EXCEPT !.timestamp = StoredDateTime(@)])
       IN  /\ store' = InsertRow(store, row)
           /\ assigned' = Append(assigned, row.id)
           /\ requests' = [requests EXCEPT ![c].pc = "committed", ![c].id = row.id]
    /\ UNCHANGED <<api_key, last>>

\* session.commit() raises (the database is locked by another writer, or
\* the storage fails): nothing is written and the request fails.
CreateCommitFails(c) ==
    /\ requests[c].pc = "added"
    /\ requests' = [requests EXCEPT ![c].pc = "failed"]
    /\ UNCHANGED <<store, api_key, last, assigned>>

\* session.refresh(status); return status: the row is read back by its id.
CreateRefresh(c) ==
    /\ requests[c].pc = "committed"
    /\ \E i \in DOMAIN store :
          /\ store[i].id = requests[c].id
          /\ requests' = [requests EXCEPT ![c].pc = "done", ![c].obj = <<store[i]>>]
    /\ UNCHANGED <<store, api_key, last, assigned>>

NextCreate ==
    \/ \E c \in Clients : CreateAdd(c)
    \/ \E c \in Clients : CreateCommit(c)
    \/ \E c \in Clients : CreateCommitFails(c)
    \/ \E c \in Clients : CreateRefresh(c)

SpecCreate == InitCreate /\ [][NextCreate]_vars

----------------------------------------------------------------------------
(* Properties *)

\* The handler ran: the request passed verify_api_key and body validation.
Passed == last.status \notin {0, 401, 422}

\* Rows of the store that belong to device d.
Of(d) == {i \in DOMAIN store : store[i].device_id = d}

\* Rows of d carrying the largest timestamp among the rows of d.
Newest(d) == {i \in Of(d) : \A j \in Of(d) : store[j].timestamp <= store[i].timestamp}

\* C1: whenever exactly one row of a device carries the device's largest
\* timestamp, get_latest_status answers 200 with exactly that row, whatever
\* the order in which the rows were inserted.
C1_LatestIsUniqueMaximum ==
    (last.op = "latest" /\ Passed) =>
        \A i \in Of(last.device_id) :
            (\A j \in Of(last.device_id) \ {i} : store[j].timestamp < store[i].timestamp)
                => (last.status = 200 /\ last.body = <<store[i]>>)

\* C1 witness: the newest row of the device was inserted before an older one
\* and get_latest_status returned it.
C1_Witness ==
    /\ last.op = "latest" /\ last.status = 200
    /\ Len(store) = 2
    /\ store[1].device_id = last.device_id /\ store[2].device_id = last.device_id
    /\ store[1].timestamp > store[2].timestamp
    /\ last.body = <<store[1]>>

C3_Original ==
    (last.op = "summary" /\ Passed /\ store # <<>>) =>
        /\ last.status = 200
        /\ \A d \in Devices :
              Cardinality({k \in DOMAIN last.body : last.body[k].device_id = d})
                  = IF Of(d) = {} THEN 0 ELSE 1
        /\ \A k \in DOMAIN last.body :
              \E i \in Newest(last.body[k].device_id) :
                  last.body[k] = SummaryItem(store[i])

\* C4: every stored battery_level is an integer in [0, 100] after every step,
\* and a create or update whose body carries a battery_level outside [0, 100]
\* is answered 422 and leaves the store as it was.
C4_Step ==
    /\ \A i \in DOMAIN store' :
          store'[i].battery_level \in Int /\ store'[i].battery_level \in 0..100
    /\ ( /\ last'.op \in {"create", "update"}
         /\ last'.req # <<>>
         /\ "battery_level" \in DOMAIN last'.req[1]
         /\ last'.req[1].battery_level \notin 0..100 )
       => (last'.status = 422 /\ store' = store)

C4_BatteryLevelInRange == [][C4_Step]_vars

\* C4 witness: an update with battery_level 101 was answered 422 while the
\* store holds a row at the upper end of the range.
C4_Witness ==
    /\ last.op = "update" /\ last.status = 422
    /\ last.req[1].battery_level = 101
    /\ \E i \in DOMAIN store : store[i].battery_level = 100

\* C5 as stated: an update of a device that has a row answers 200 with, and
\* persists, that row with the submitted fields replaced and the others,
\* id and device_id included, as they were.
C5_Step ==
    (last'.op = "update" /\ last'.status \notin {401, 422} /\ Of(last'.device_id) # {})
        => \E i \in Of(last'.device_id) :
              /\ last'.status = 200
              /\ last'.body = <<Merge(store[i], last'.req[1])>>
              /\ i \in DOMAIN store'
              /\ store'[i] = Merge(store[i], last'.req[1])

C5_Original == [][C5_Step]_vars

\* C6 as stated: an update of a device without rows is answered 404 and
\* leaves the store as it was.
C6_Step ==
    (last'.op = "update" /\ last'.status \notin {401, 422} /\ Of(last'.device_id) = {})
        => (last'.status = 404 /\ store' = store)

C6_Original == [][C6_Step]_vars

\* C7: get_summary answers 404 "Summary cannot be generated" exactly when the
\* store is empty, and 200 with a non-empty list whenever it is not.
C7_SummaryNoDataIffEmpty ==
    (last.op = "summary" /\ Passed) =>
        /\ (last.status = 404 /\ last.detail = "Summary cannot be generated")
              <=> (store = <<>>)
        /\ store # <<>> => (last.status = 200 /\ last.body # <<>>)

\* C7 witness: get_summary ran with a matching key on the empty store and
\* answered 404.
C7_Witness ==
    /\ last.op = "summary" /\ last.status = 404
    /\ api_key = Secret /\ last.x_api_key = Secret
    /\ store = <<>>

\* C8: get_latest_status answers 404 "Device not found" exactly when no row
\* carries the requested device_id, and otherwise 200 with a stored row of
\* that device.
C8_LatestNotFoundIffNoRow ==
    (last.op = "latest" /\ Passed) =>
        /\ (last.status = 404 /\ last.detail = "Device not found")
              <=> (Of(last.device_id) = {})
        /\ Of(last.device_id) # {} =>
              /\ last.status = 200
              /\ \E i \in Of(last.device_id) : last.body = <<store[i]>>

\* C8 witness: the store holds rows of another device only and the request
\* was answered 404.
C8_Witness ==
    /\ last.op = "latest" /\ last.status = 404
    /\ store # <<>>
    /\ \A i \in DOMAIN store : store[i].device_id # last.device_id

\* C9 as stated: with API_KEY configured, a request of any of the six
\* operations whose credential is absent is answered 401 "missing API key
\* header", one whose credential differs 401 "invalid API key", neither
\* touching the store; any other request passes the gate.
CoreOps == {"create", "list", "latest", "summary", "update", "delete"}

C9_Original ==
    last.op \in CoreOps =>
        IF api_key # NoKey /\ last.x_api_key # api_key
          THEN /\ last.status = 401
               /\ last.detail = IF last.x_api_key = NoKey
                                  THEN "missing API key header"
                                  ELSE "invalid API key"
               /\ ~last.accessed
          ELSE last.status # 401

\* C10 as stated: delete answers 200 and removes a row when the device has
\* one, answers 404 and leaves the store as it was when it has none, and no
\* other operation removes a row.
C10_Step ==
    /\ (last'.op = "delete" /\ Of(last'.device_id) # {})
          => (last'.status = 200 /\ Len(store') < Len(store))
    /\ (last'.op = "delete" /\ Of(last'.device_id) = {})
          => (last'.status = 404 /\ store' = store)
    /\ last'.op # "delete"
          => \A i \in DOMAIN store : \E j \in DOMAIN store' : store'[j] = store[i]

C10_Original == [][C10_Step]_vars

\* C11: no two stored rows share an id, every stored id is one the table
\* gave out, and the table never gave out the same id twice over any
\* sequence of create, update and delete requests.
C11_IdsUniqueNeverReused ==
    /\ \A i, j \in DOMAIN store : store[i].id = store[j].id => i = j
    /\ \A i \in DOMAIN store : \E k \in DOMAIN assigned : assigned[k] = store[i].id
    /\ \A k, l \in DOMAIN assigned : assigned[k] = assigned[l] => k = l

\* C11 witness: a second create was answered 201 with an id that differs from
\* the id of the row stored first.
C11_Witness ==
    /\ last.op = "create" /\ last.status = 201
    /\ Len(assigned) = 2 /\ assigned[1] # assigned[2]
    /\ last.body[1].id = assigned[2]
    /\ store[1].id = assigned[1]

\* The create requests whose commit went through.
Succeeded == {c \in DOMAIN requests : requests[c].pc \in {"committed", "done"}}

\* The rows a request's commit left in the store.
RowsOf(c) == {i \in DOMAIN store : store[i].id = requests[c].id}

\* C12 as stated: under every interleaving of create requests the store
\* holds exactly one row per successful create, the row holds exactly the
\* five values its request submitted, and no step changes a row stored
\* before.
C12_StepOriginal ==
    /\ \A i \in DOMAIN store : i \in DOMAIN store' /\ store'[i] = store[i]
    /\ Len(store') = Len(store) + Cardinality(Succeeded' \ Succeeded)
    /\ \A c \in Succeeded' :
          /\ Cardinality(RowsOf(c)') = 1
          /\ \A i \in RowsOf(c)' :
                /\ store'[i].device_id = requests'[c].status[1].device_id
                /\ ReadDateTime(store'[i].timestamp) = requests'[c].status[1].timestamp
                /\ store'[i].battery_level = requests'[c].status[1].battery_level
                /\ store'[i].rssi = requests'[c].status[1].rssi
                /\ store'[i].online = requests'[c].status[1].online

C12_Original == [][C12_StepOriginal]_vars

\* C12 as amended: the same, except that of the submitted timestamp the row
\* holds the wall-clock reading only, without its timezone.
C12_Step ==
    /\ \A i \in DOMAIN store : i \in DOMAIN store' /\ store'[i] = store[i]
    /\ Len(store') = Len(store) + Cardinality(Succeeded' \ Succeeded)
    /\ \A c \in Succeeded' :
          /\ Cardinality(RowsOf(c)') = 1
          /\ \A i \in RowsOf(c)' :
                /\ store'[i].device_id = requests'[c].status[1].device_id
                /\ store'[i].timestamp = requests'[c].status[1].timestamp.wall
                /\ store'[i].battery_level = requests'[c].status[1].battery_level
                /\ store'[i].rssi = requests'[c].status[1].rssi
                /\ store'[i].online = requests'[c].status[1].online

C12_ConcurrentCreatesAppend == [][C12_Step]_vars

\* C12 witness: two requests with different bodies have both returned,
\* request 2 having committed before request 1, and the row stored before
\* them is still the first row.
C12_Witness ==
    /\ Len(store) = 3
    /\ \A c \in Clients : requests[c].pc = "done"
    /\ requests[1].id > requests[2].id
    /\ requests[1].status # requests[2].status
    /\ store[1].battery_level = 0

\* C13 as stated: an update of a device that has a row succeeds by writing
\* over the content stored under one existing id: it answers 200 with the
\* row now stored under that id, the stored ids and the number of rows are
\* as before, and every other row, of the same device or not, is unchanged.
C13_Step ==
    (last'.op = "update" /\ last'.status \notin {401, 422} /\ Of(last'.device_id) # {})
        => /\ last'.status = 200
           /\ Len(store') = Len(store)
           /\ {store'[j].id : j \in DOMAIN store'} = {store[j].id : j \in DOMAIN store}
           /\ \E i \in Of(last'.device_id) :
                 /\ store'[i].id = store[i].id
                 /\ last'.body = <<store'[i]>>
                 /\ \A j \in DOMAIN store \ {i} : store'[j] = store[j]

C13_Original == [][C13_Step]_vars

====
